---- MODULE Spec2Model ----
(***************************************************************************)
(* State-machine model of the homelab_ops Prefect flows:                   *)
(*   backup_generic_dir.py   validate_paths, create_tar, prune_old_archives*)
(*   backup_homeassistant.py ensure_dest_dir, backup_homeassistant_config, *)
(*                           prune_old_backups                             *)
(*   permission_fixup.py     fix_permissions                               *)
(* A string is a sequence of one-character strings, so that strip, lower,  *)
(* the two re.sub calls, strftime and glob are computed character by       *)
(* character, as the Python code computes them.                            *)
(***************************************************************************)
EXTENDS Integers, Sequences, FiniteSets, TLC

VARIABLES
    now,        \* time.time(): seconds since the epoch (UTC)
    ticks,      \* how many times the clock has advanced (bounded)
    runs,       \* how many flow runs have started (bounded)
    destExists, \* the destination directory exists
    files,      \* destination directory: file name -> [mtime, creator]
    pc,         \* position of the flow run in progress
    target,     \* Path(target_dir).name of the run in progress
    targetKind, \* what target_dir is on disk: "dir", "file" or "missing"
    keep_days,  \* the run's keep_days argument
    steps,      \* the tasks this run has invoked, in order
    startDest,  \* destExists when the run started
    startFiles, \* files when the run started
    archive,    \* name of the archive create_tar composed (<<>> before)
    written,    \* this run's tar exited 0, having written its archive
    clobbered,  \* creators of the archive this run's create_tar overwrote
    listed,     \* this run's prune performed the directory listing (glob)
    p_now,      \* prune: the local `now` = time.time()
    cutoff,     \* prune: now - keep_days * 86400
    todo,       \* prune: matching paths not yet examined, in iteration order
    snapshot,   \* prune: the directory content when the listing was taken
    deleted,    \* prune: the counter `deleted`
    removed,    \* prune: records of the files this run's unlink removed
    concurrent, \* another process changed dest during this run's prune
    failure,    \* the exception that ended the run ("" if none)
    result,     \* the flow's return value (<<>> if none)
    s_in,       \* _slugify harness: the input string
    s_out,      \* _slugify harness: _slugify(s_in), once computed
    s_out2,     \* _slugify harness: _slugify(_slugify(s_in)), once computed
    s_pc,       \* _slugify harness: position
    fp_pc,        \* fix_permissions: position
    rootKind,     \* fix_permissions: what root is on disk
    kinds,        \* fix_permissions: descendant path -> "dir" or "file"
    owner,        \* fix_permissions: path -> "old" or "new" (uid:gid applied)
    dry_run,      \* fix_permissions: argument
    include_dirs, \* fix_permissions: argument
    targets,      \* fix_permissions: paths not yet visited, in order
    visited,      \* fix_permissions: number of paths in the traversal set
    scanned,      \* fix_permissions: counter
    changed,      \* fix_permissions: counter
    skipped,      \* fix_permissions: counter
    errors,       \* fix_permissions: counter
    fp_failure,   \* fix_permissions: the exception that ended the call
    ha_pc,        \* backup_homeassistant: position of the run in progress
    ha_keep_days, \* backup_homeassistant: argument keep_days
    ha_cfgExists, \* backup_homeassistant: ha_config_dir exists
    ha_steps,     \* backup_homeassistant: tasks invoked, in order
    ha_archive,   \* backup_homeassistant_config: the archive name composed
    ha_now,       \* prune_old_backups: the clock when cutoff was computed
    ha_cutoff,    \* prune_old_backups: cutoff, a datetime
    ha_todo,      \* prune_old_backups: matching paths not yet examined
    ha_snapshot,  \* prune_old_backups: directory content at the listing
    ha_deleted,   \* prune_old_backups: the counter `deleted`
    ha_removed,   \* prune_old_backups: names of the files unlink removed
    ha_caught,    \* prune_old_backups: exceptions caught, by type
    ha_failure    \* backup_homeassistant: the exception that ended the run

\* The clock and the destination directory, shared by the backup flows.
envVars == <<now, ticks, runs, destExists, files>>

\* One run of backup_generic_dir.
runVars == <<pc, target, targetKind, keep_days, steps, startDest, startFiles,
             archive, written, clobbered, listed, p_now, cutoff, todo,
             snapshot, deleted, removed, concurrent, failure, result>>

\* One run of backup_homeassistant.
haVars == <<ha_pc, ha_keep_days, ha_cfgExists, ha_steps, ha_archive, ha_now,
            ha_cutoff, ha_todo, ha_snapshot, ha_deleted, ha_removed,
            ha_caught, ha_failure>>

slugVars == <<s_in, s_out, s_out2, s_pc>>

permVars == <<fp_pc, rootKind, kinds, owner, dry_run, include_dirs, targets,
              visited, scanned, changed, skipped, errors, fp_failure>>

vars == <<envVars, runVars, haVars, slugVars, permVars>>

-----------------------------------------------------------------------------
(* Characters and strings *)

\* The characters of the model, in code-point order (sorted() compares
\* file names by code point).
Ascii ==
    <<"\t", " ", "*", "-", ".", "0", "1", "2", "3", "4", "5", "6", "7", "8",
      "9", "A", "B", "F", "M", "S", "_", "a", "b", "c", "d", "e", "f", "g",
      "h", "i", "k", "m", "n", "o", "p", "r", "s", "t", "u", "v", "y">>

Chars == {Ascii[i] : i \in 1..Len(Ascii)}

Ord(c) == CHOOSE i \in 1..Len(Ascii) : Ascii[i] = c

\* str.strip() with no argument strips whitespace.
Whitespace == {" ", "\t"}

\* The character class [a-z0-9._-] of the regular expression in _slugify.
SlugChars ==
    {"a", "b", "c", "d", "e", "f", "g", "h", "i", "k", "m", "n", "o", "p",
     "r", "s", "t", "u", "v", "y",
     "0", "1", "2", "3", "4", "5", "6", "7", "8", "9", ".", "_", "-"}

\* str.lower() on one character.
LowerChar(c) ==
    CASE c = "A" -> "a"
      [] c = "B" -> "b"
      [] c = "F" -> "f"
      [] c = "M" -> "m"
      [] c = "S" -> "s"
      [] OTHER -> c

Lower(s) == [i \in 1..Len(s) |-> LowerChar(s[i])]

RECURSIVE LStrip(_, _)
LStrip(s, cs) ==
    IF s # <<>> /\ Head(s) \in cs THEN LStrip(Tail(s), cs) ELSE s

RECURSIVE RStrip(_, _)
RStrip(s, cs) ==
    IF s # <<>> /\ s[Len(s)] \in cs
    THEN RStrip(SubSeq(s, 1, Len(s) - 1), cs)
    ELSE s

\* str.strip(chars)
Strip(s, cs) == RStrip(LStrip(s, cs), cs)

\* re.sub(r"[^a-z0-9._-]+", "-", s): every maximal run of characters outside
\* the class becomes one "-".
RECURSIVE SubOutside(_)
SubOutside(s) ==
    IF s = <<>> THEN <<>>
    ELSE IF Head(s) \in SlugChars THEN <<Head(s)>> \o SubOutside(Tail(s))
    ELSE <<"-">> \o SubOutside(LStrip(s, Chars \ SlugChars))

\* re.sub(r"-{2,}", "-", s): every run of two or more "-" becomes one "-".
RECURSIVE SubHyphens(_)
SubHyphens(s) ==
    IF s = <<>> THEN <<>>
    ELSE IF Head(s) = "-" THEN <<"-">> \o SubHyphens(LStrip(s, {"-"}))
    ELSE <<Head(s)>> \o SubHyphens(Tail(s))

\* Faulty variant of _slugify: `return name`, without the "backup" fallback.
SlugifyNoFallback(name) ==
    Strip(SubHyphens(SubOutside(Lower(Strip(name, Whitespace)))), {"-"})

_slugify(name) ==
    LET a == Lower(Strip(name, Whitespace))
        b == SubOutside(a)
        c == Strip(SubHyphens(b), {"-"})
    IN  IF c = <<>> THEN <<"b", "a", "c", "k", "u", "p">> ELSE c

-----------------------------------------------------------------------------
(* _slugify applied to every string over a small alphabet *)

\* Longest input string of the _slugify harness.
MaxLen == 3

\* One character of each kind _slugify distinguishes: lower-case letter,
\* upper-case letter, digit, ".", "_", "-", whitespace, anything else.
SlugAlphabet == {"a", "B", "0", ".", "_", "-", " ", "*"}

RECURSIVE StringsUpTo(_, _)
StringsUpTo(alphabet, n) ==
    IF n = 0 THEN {<<>>}
    ELSE LET shorter == StringsUpTo(alphabet, n - 1)
         IN  shorter \cup {<<c>> \o s : c \in alphabet,
                                        s \in {t \in shorter : Len(t) = n - 1}}

SlugInputs == StringsUpTo(SlugAlphabet, MaxLen)

SlugInit ==
    /\ s_in \in SlugInputs
    /\ s_out = <<>>
    /\ s_out2 = <<>>
    /\ s_pc = "input"

SlugifyOnce ==
    /\ s_pc = "input"
    /\ s_out' = _slugify(s_in)
    /\ s_pc' = "once"
    /\ UNCHANGED <<s_in, s_out2>>

SlugifyTwice ==
    /\ s_pc = "once"
    /\ s_out2' = _slugify(s_out)
    /\ s_pc' = "twice"
    /\ UNCHANGED <<s_in, s_out>>

\* The _slugify harness at rest (in the specifications of the other parts).
SlugIdle ==
    /\ s_in = <<>>
    /\ s_out = <<>>
    /\ s_out2 = <<>>
    /\ s_pc = "off"

-----------------------------------------------------------------------------
(* File names: strftime, the archive name, glob and sorted *)

SecondsPerDay == 86400

DigitChar(n) == Ascii[Ord("0") + n]

RECURSIVE Decimal(_)
Decimal(n) ==
    IF n < 10 THEN <<DigitChar(n)>>
    ELSE Decimal(n \div 10) \o <<DigitChar(n % 10)>>

RECURSIVE ZeroPad(_, _)
ZeroPad(s, width) ==
    IF Len(s) >= width THEN s ELSE ZeroPad(<<"0">> \o s, width)

\* The UTC calendar date of a timestamp: datetime.now(timezone.utc), as
\* [year, month, day] (proleptic Gregorian calendar, days since 1970-01-01).
CivilDate(ts) ==
    LET z   == (ts \div SecondsPerDay) + 719468
        era == z \div 146097
        doe == z - era * 146097
        yoe == (doe - doe \div 1460 + doe \div 36524 - doe \div 146096) \div 365
        doy == doe - (365 * yoe + yoe \div 4 - yoe \div 100)
        mp  == (5 * doy + 2) \div 153
        d   == doy - (153 * mp + 2) \div 5 + 1
        m   == IF mp < 10 THEN mp + 3 ELSE mp - 9
        y   == yoe + era * 400 + (IF m <= 2 THEN 1 ELSE 0)
    IN  [year |-> y, month |-> m, day |-> d]

\* Faulty variant of Strftime: the fields without zero padding.
StrftimeNoPad(ts) ==
    LET c == CivilDate(ts)
    IN  Decimal(c.year) \o <<"-">> \o Decimal(c.month) \o <<"-">> \o Decimal(c.day)

\* datetime.now(timezone.utc).strftime("%Y-%m-%d")
Strftime(ts) ==
    LET c == CivilDate(ts)
    IN  ZeroPad(Decimal(c.year), 4) \o <<"-">> \o ZeroPad(Decimal(c.month), 2)
            \o <<"-">> \o ZeroPad(Decimal(c.day), 2)

DotTar == <<".", "t", "a", "r">>

\* f"{date}-{suffix}.tar"
ArchiveName(date, suffix) == date \o <<"-">> \o suffix \o DotTar

EndsWith(s, t) ==
    /\ Len(s) >= Len(t)
    /\ SubSeq(s, Len(s) - Len(t) + 1, Len(s)) = t

\* dest.glob(f"*-{suffix}.tar"): "*" matches any run of characters, the rest
\* of the pattern is literal (a slug holds no glob metacharacter).
GlobMatch(name, suffix) == EndsWith(name, <<"-">> \o suffix \o DotTar)

\* a < b for strings, character by character in code-point order.
RECURSIVE StrLess(_, _)
StrLess(a, b) ==
    IF b = <<>> THEN FALSE
    ELSE IF a = <<>> THEN TRUE
    ELSE IF Head(a) = Head(b) THEN StrLess(Tail(a), Tail(b))
    ELSE Ord(Head(a)) < Ord(Head(b))

\* sorted(...) of a set of names.
RECURSIVE Sorted(_)
Sorted(S) ==
    IF S = {} THEN <<>>
    ELSE LET least == CHOOSE x \in S : \A y \in S \ {x} : StrLess(x, y)
         IN  <<least>> \o Sorted(S \ {least})

Range(s) == {s[i] : i \in 1..Len(s)}

\* The directory without one file.
Without(dir, name) == [n \in (DOMAIN dir) \ {name} |-> dir[n]]

\* The directory with one file written (created or overwritten).
WithFile(dir, name, rec) ==
    [n \in (DOMAIN dir) \cup {name} |-> IF n = name THEN rec ELSE dir[n]]

NoFiles == [n \in {} |-> 0]

-----------------------------------------------------------------------------
(* The flow backup_generic_dir: validate_paths, create_tar, prune_old_archives *)

\* Bounds of the flow model.
MaxRuns == 3
MaxTicks == 2
MaxKeepDays == 1

\* The clock starts at 2024-03-05 00:00:00 UTC (day 19787 of the epoch).
StartTimes == {19787 * SecondsPerDay}

\* Base names of the target directories of the backup jobs that share dest.
Targets ==
    { <<"s", "t", "a", "t", "i", "c", "_", "s", "e", "r", "v", "e", "r">>,
      <<"f", "o", "o">>,
      <<"m", "y", "-", "f", "o", "o">>,
      <<"M", "y", " ", "F", "o", "o">> }

KeepDaysChoices == (-1)..MaxKeepDays

\* A flow run at rest: nothing in progress.
RunReset ==
    /\ pc' = "idle"
    /\ target' = <<>>
    /\ targetKind' = "dir"
    /\ keep_days' = 0
    /\ steps' = <<>>
    /\ startDest' = FALSE
    /\ startFiles' = NoFiles
    /\ archive' = <<>>
    /\ written' = FALSE
    /\ clobbered' = {}
    /\ listed' = FALSE
    /\ p_now' = 0
    /\ cutoff' = 0
    /\ todo' = <<>>
    /\ snapshot' = NoFiles
    /\ deleted' = 0
    /\ removed' = {}
    /\ concurrent' = FALSE
    /\ failure' = ""
    /\ result' = <<>>

EnvInit ==
    /\ now \in StartTimes
    /\ ticks = 0
    /\ runs = 0
    /\ destExists = FALSE
    /\ files = NoFiles

RunInit ==
    /\ pc = "idle"
    /\ target = <<>>
    /\ targetKind = "dir"
    /\ keep_days = 0
    /\ steps = <<>>
    /\ startDest = FALSE
    /\ startFiles = NoFiles
    /\ archive = <<>>
    /\ written = FALSE
    /\ clobbered = {}
    /\ listed = FALSE
    /\ p_now = 0
    /\ cutoff = 0
    /\ todo = <<>>
    /\ snapshot = NoFiles
    /\ deleted = 0
    /\ removed = {}
    /\ concurrent = FALSE
    /\ failure = ""
    /\ result = <<>>


\* The run ends with an exception: later tasks of the flow are not called.
Raise(exc) ==
    /\ pc' = "failed"
    /\ failure' = exc

\* time passes: one day on the clock.
Tick ==
    /\ ticks < MaxTicks
    /\ ticks' = ticks + 1
    /\ now' = now + SecondsPerDay
    /\ UNCHANGED <<runs, destExists, files>>

\* The scheduler calls backup_generic_dir(target_dir, dest_dir, None, keep_days).
StartRun ==
    /\ pc = "idle"
    /\ runs < MaxRuns
    /\ \E t \in Targets, k \in KeepDaysChoices, kind \in {"dir", "file", "missing"} :
          /\ target' = t
          /\ keep_days' = k
          /\ targetKind' = kind
    /\ runs' = runs + 1
    /\ pc' = "validate_paths"
    /\ startDest' = destExists
    /\ startFiles' = files
    /\ UNCHANGED <<now, ticks, destExists, files, steps, archive, written,
                   clobbered, listed, p_now, cutoff, todo, snapshot, deleted,
                   removed, concurrent, failure, result>>

\* validate_paths: the target check, mkdir(parents, exist_ok) and the write
\* probe (write_text, then unlink(missing_ok=True)).
ValidatePaths ==
    /\ pc = "validate_paths"
    /\ steps' = Append(steps, "validate_paths")
    /\ \E mkdirOk \in BOOLEAN, probeOk \in BOOLEAN :
          IF targetKind # "dir"
          THEN /\ Raise("ValueError")
               /\ UNCHANGED destExists
          ELSE IF ~destExists /\ ~mkdirOk
          THEN /\ Raise("OSError")
               /\ UNCHANGED destExists
          ELSE IF ~probeOk
          THEN /\ Raise("OSError")
               /\ destExists' = TRUE
          ELSE /\ pc' = "create_tar"
               /\ destExists' = TRUE
               /\ UNCHANGED failure
    /\ UNCHANGED <<now, ticks, runs, files, target, targetKind, keep_days,
                   startDest, startFiles, archive, written, clobbered, listed,
                   p_now, cutoff, todo, snapshot, deleted, removed, concurrent,
                   result>>

\* Faulty variant of TarRaises: subprocess.run(cmd, check=False), a non-zero
\* exit raises nothing.
TarRaisesUnchecked(exit) == FALSE

\* subprocess.run(cmd, check=True) raises CalledProcessError on a non-zero exit.
TarRaises(exit) == exit # 0

\* create_tar: compose the name, run tar, stat the archive.  tar exits 0
\* having written the archive, or non-zero having written nothing or a
\* partial file; the stat of the size report can fail.
CreateTar ==
    /\ pc = "create_tar"
    /\ steps' = Append(steps, "create_tar")
    /\ LET name == ArchiveName(Strftime(now), _slugify(target))
           rec  == [mtime |-> now, creator |-> target]
       IN  /\ archive' = name
           /\ \E exit \in {0, 2}, wrote \in BOOLEAN, statOk \in BOOLEAN :
                 /\ exit = 0 => wrote
                 /\ files' = IF wrote THEN WithFile(files, name, rec) ELSE files
                 /\ clobbered' = IF wrote /\ name \in DOMAIN files
                                 THEN {files[name].creator} ELSE {}
                 /\ written' = (exit = 0)
                 /\ IF TarRaises(exit)
                    THEN Raise("CalledProcessError")
                    ELSE IF name \notin DOMAIN files' THEN Raise("FileNotFoundError")
                    ELSE IF ~statOk THEN Raise("OSError")
                    ELSE /\ pc' = "prune_old_archives"
                         /\ UNCHANGED failure
    /\ UNCHANGED <<now, ticks, runs, destExists, target, targetKind, keep_days,
                   startDest, startFiles, listed, p_now, cutoff, todo, snapshot,
                   deleted, removed, concurrent, result>>

\* The flow returns str(archive) once prune_old_archives has returned.
FlowReturn ==
    /\ pc' = "done"
    /\ result' = archive

\* suffix = _slugify(name_hint)
PruneSuffix(name_hint) == _slugify(name_hint)

\* if keep_days < 1: return 0
PruneSkips(k) == k < 1

\* prune_old_archives up to the listing: the keep_days test, now, cutoff,
\* the pattern and sorted(dest.glob(pattern)).
PruneStart ==
    /\ pc = "prune_old_archives"
    /\ steps' = Append(steps, "prune_old_archives")
    /\ deleted' = 0
    /\ IF PruneSkips(keep_days)
       THEN /\ FlowReturn
            /\ UNCHANGED <<listed, p_now, cutoff, todo, snapshot>>
       ELSE /\ p_now' = now
            /\ cutoff' = p_now' - keep_days * SecondsPerDay
            /\ todo' = Sorted({n \in DOMAIN files :
                                  GlobMatch(n, PruneSuffix(target))})
            /\ snapshot' = files
            /\ listed' = TRUE
            /\ pc' = "prune_stat"
            /\ UNCHANGED result
    /\ UNCHANGED <<now, ticks, runs, destExists, files, target, targetKind,
                   keep_days, startDest, startFiles, archive, written,
                   clobbered, removed, concurrent, failure>>

\* Faulty variant of IsOld: mtime <= cutoff.
IsOldInclusive(mtime, limit) == mtime <= limit

\* if mtime < cutoff
IsOld(mtime, limit) == mtime < limit

\* One turn of the loop up to the age test: p.stat().st_mtime, with
\* FileNotFoundError caught (continue); any other OSError is not caught.
\* With no path left the task returns `deleted` and the flow returns.
PruneStat ==
    /\ pc = "prune_stat"
    /\ IF todo = <<>>
       THEN /\ FlowReturn
            /\ UNCHANGED <<todo, failure>>
       ELSE LET p == Head(todo)
            IN  IF p \notin DOMAIN files
                THEN /\ todo' = Tail(todo)
                     /\ UNCHANGED <<pc, failure, result>>
                ELSE \E statOk \in BOOLEAN :
                        IF ~statOk
                        THEN /\ Raise("OSError")
                             /\ UNCHANGED <<todo, result>>
                        ELSE IF IsOld(files[p].mtime, cutoff)
                        THEN /\ pc' = "prune_unlink"
                             /\ UNCHANGED <<todo, failure, result>>
                        ELSE /\ todo' = Tail(todo)
                             /\ UNCHANGED <<pc, failure, result>>
    /\ UNCHANGED <<now, ticks, runs, destExists, files, target, targetKind,
                   keep_days, steps, startDest, startFiles, archive, written,
                   clobbered, listed, p_now, cutoff, snapshot, deleted, removed,
                   concurrent>>

\* The rest of the turn: p.unlink(missing_ok=True); deleted += 1.  A missing
\* file raises nothing; PermissionError and any other OSError are not caught.
PruneUnlink ==
    /\ pc = "prune_unlink"
    /\ LET p == Head(todo)
       IN  IF p \notin DOMAIN files
           THEN /\ deleted' = deleted + 1
                /\ todo' = Tail(todo)
                /\ pc' = "prune_stat"
                /\ UNCHANGED <<files, removed, failure>>
           ELSE \E outcome \in {"ok", "PermissionError", "OSError"} :
                   IF outcome = "ok"
                   THEN /\ files' = Without(files, p)
                        /\ removed' = removed \cup
                              {[name |-> p, mtime |-> files[p].mtime,
                                creator |-> files[p].creator]}
                        /\ deleted' = deleted + 1
                        /\ todo' = Tail(todo)
                        /\ pc' = "prune_stat"
                        /\ UNCHANGED failure
                   ELSE /\ Raise(outcome)
                        /\ UNCHANGED <<files, removed, deleted, todo>>
    /\ UNCHANGED <<now, ticks, runs, destExists, target, targetKind,
                   keep_days, steps, startDest, startFiles, archive, written,
                   clobbered, listed, p_now, cutoff, snapshot, concurrent, result>>

\* Another process removes a listed file while the prune loop runs (the loop
\* reads no other file).
ExternalDelete ==
    /\ pc \in {"prune_stat", "prune_unlink"}
    /\ \E p \in Range(todo) \cap DOMAIN files :
          files' = Without(files, p)
    /\ concurrent' = TRUE
    /\ UNCHANGED <<now, ticks, runs, destExists, pc, target, targetKind,
                   keep_days, steps, startDest, startFiles, archive, written,
                   clobbered, listed, p_now, cutoff, todo, snapshot, deleted,
                   removed, failure, result>>

\* The run is over (returned or raised); the scheduler may start another.
FinishRun ==
    /\ pc \in {"done", "failed"}
    /\ RunReset
    /\ UNCHANGED <<now, ticks, runs, destExists, files>>

-----------------------------------------------------------------------------
(* The flow backup_homeassistant: ensure_dest_dir,                          *)
(* backup_homeassistant_config, prune_old_backups                           *)

Homeassistant ==
    <<"h", "o", "m", "e", "a", "s", "s", "i", "s", "t", "a", "n", "t">>

\* datetime.utcfromtimestamp(ts): a naive datetime (tzinfo is None).
UtcFromTimestamp(ts) == [ts |-> ts, aware |-> FALSE]

\* datetime.now(timezone.utc): an aware datetime.
NowUtc(ts) == [ts |-> ts, aware |-> TRUE]

\* dt - timedelta(days=days): tzinfo is kept.
MinusDays(dt, days) == [dt EXCEPT !.ts = @ - days * SecondsPerDay]

\* a < b on datetimes: Python raises TypeError when one is naive and the
\* other aware ("can't compare offset-naive and offset-aware datetimes").
DatetimeLess(a, b) ==
    IF a.aware # b.aware THEN "TypeError"
    ELSE IF a.ts < b.ts THEN "True"
    ELSE "False"

NoCaught == [OSError |-> 0, TypeError |-> 0]

HAInit ==
    /\ ha_pc = "idle"
    /\ ha_keep_days = 0
    /\ ha_cfgExists = TRUE
    /\ ha_steps = <<>>
    /\ ha_archive = <<>>
    /\ ha_now = 0
    /\ ha_cutoff = NowUtc(0)
    /\ ha_todo = {}
    /\ ha_snapshot = NoFiles
    /\ ha_deleted = 0
    /\ ha_removed = {}
    /\ ha_caught = NoCaught
    /\ ha_failure = ""

HAReset ==
    /\ ha_pc' = "idle"
    /\ ha_keep_days' = 0
    /\ ha_cfgExists' = TRUE
    /\ ha_steps' = <<>>
    /\ ha_archive' = <<>>
    /\ ha_now' = 0
    /\ ha_cutoff' = NowUtc(0)
    /\ ha_todo' = {}
    /\ ha_snapshot' = NoFiles
    /\ ha_deleted' = 0
    /\ ha_removed' = {}
    /\ ha_caught' = NoCaught
    /\ ha_failure' = ""

HARaise(exc) ==
    /\ ha_pc' = "failed"
    /\ ha_failure' = exc

\* The scheduler calls backup_homeassistant(ha_config_dir, dest_dir, True, keep_days).
HAStartRun ==
    /\ ha_pc = "idle"
    /\ runs < MaxRuns
    /\ runs' = runs + 1
    /\ \E k \in KeepDaysChoices, cfg \in BOOLEAN :
          /\ ha_keep_days' = k
          /\ ha_cfgExists' = cfg
    /\ ha_pc' = "ensure_dest_dir"
    /\ UNCHANGED <<now, ticks, destExists, files, ha_steps, ha_archive, ha_now,
                   ha_cutoff, ha_todo, ha_snapshot, ha_deleted, ha_removed,
                   ha_caught, ha_failure>>

\* ensure_dest_dir: dest_dir.mkdir(parents=True, exist_ok=True)
EnsureDestDir ==
    /\ ha_pc = "ensure_dest_dir"
    /\ ha_steps' = Append(ha_steps, "ensure_dest_dir")
    /\ \E mkdirOk \in BOOLEAN :
          IF ~destExists /\ ~mkdirOk
          THEN /\ HARaise("OSError")
               /\ UNCHANGED destExists
          ELSE /\ destExists' = TRUE
               /\ ha_pc' = "backup_homeassistant_config"
               /\ UNCHANGED ha_failure
    /\ UNCHANGED <<now, ticks, runs, files, ha_keep_days, ha_cfgExists,
                   ha_archive, ha_now, ha_cutoff, ha_todo, ha_snapshot,
                   ha_deleted, ha_removed, ha_caught>>

\* backup_homeassistant_config: the config-dir check, the archive name, tar
\* with check=True, the stat of the size report.
BackupHomeassistantConfig ==
    /\ ha_pc = "backup_homeassistant_config"
    /\ ha_steps' = Append(ha_steps, "backup_homeassistant_config")
    /\ IF ~ha_cfgExists
       THEN /\ HARaise("FileNotFoundError")
            /\ UNCHANGED <<files, ha_archive>>
       ELSE LET name == ArchiveName(Strftime(now), Homeassistant)
                rec  == [mtime |-> now, creator |-> Homeassistant]
            IN  /\ ha_archive' = name
                /\ \E exit \in {0, 2}, wrote \in BOOLEAN :
                      /\ exit = 0 => wrote
                      /\ files' = IF wrote THEN WithFile(files, name, rec)
                                  ELSE files
                      /\ IF exit # 0 THEN HARaise("CalledProcessError")
                         ELSE /\ ha_pc' = "prune_old_backups"
                              /\ UNCHANGED ha_failure
    /\ UNCHANGED <<now, ticks, runs, destExists, ha_keep_days, ha_cfgExists,
                   ha_now, ha_cutoff, ha_todo, ha_snapshot, ha_deleted,
                   ha_removed, ha_caught>>

\* prune_old_backups up to the loop: the dest check, cutoff, the glob.
HAPruneStart ==
    /\ ha_pc = "prune_old_backups"
    /\ ha_steps' = Append(ha_steps, "prune_old_backups")
    /\ ha_deleted' = 0
    /\ ha_now' = now
    /\ ha_cutoff' = MinusDays(NowUtc(now), ha_keep_days)
    /\ ha_todo' = IF destExists
                  THEN {n \in DOMAIN files : GlobMatch(n, Homeassistant)}
                  ELSE {}
    /\ ha_snapshot' = files
    /\ ha_pc' = "prune_loop"
    /\ UNCHANGED <<now, ticks, runs, destExists, files, ha_keep_days,
                   ha_cfgExists, ha_archive, ha_removed, ha_caught, ha_failure>>

\* One turn of the loop, all of it inside try / except Exception: the stat,
\* mtime < cutoff, p.unlink(), deleted += 1.  glob yields in no fixed order.
HAPruneItem ==
    /\ ha_pc = "prune_loop"
    /\ \E p \in ha_todo, statOk \in BOOLEAN, unlinkOk \in BOOLEAN :
          /\ ha_todo' = ha_todo \ {p}
          /\ IF ~statOk
             THEN /\ ha_caught' = [ha_caught EXCEPT !.OSError = 1]
                  /\ UNCHANGED <<files, ha_deleted, ha_removed>>
             ELSE LET less == DatetimeLess(UtcFromTimestamp(files[p].mtime),
                                           ha_cutoff)
                  IN  IF less = "TypeError"
                      THEN /\ ha_caught' = [ha_caught EXCEPT !.TypeError = 1]
                           /\ UNCHANGED <<files, ha_deleted, ha_removed>>
                      ELSE IF less = "False"
                      THEN UNCHANGED <<files, ha_deleted, ha_removed, ha_caught>>
                      ELSE IF ~unlinkOk
                      THEN /\ ha_caught' = [ha_caught EXCEPT !.OSError = 1]
                           /\ UNCHANGED <<files, ha_deleted, ha_removed>>
                      ELSE /\ files' = Without(files, p)
                           /\ ha_removed' = ha_removed \cup {p}
                           /\ ha_deleted' = ha_deleted + 1
                           /\ UNCHANGED ha_caught
    /\ UNCHANGED <<now, ticks, runs, destExists, ha_pc, ha_keep_days,
                   ha_cfgExists, ha_steps, ha_archive, ha_now, ha_cutoff,
                   ha_snapshot, ha_failure>>

\* The loop is over: prune_old_backups returns `deleted`, the flow returns.
HAPruneReturn ==
    /\ ha_pc = "prune_loop"
    /\ ha_todo = {}
    /\ ha_pc' = "done"
    /\ UNCHANGED <<now, ticks, runs, destExists, files, ha_keep_days,
                   ha_cfgExists, ha_steps, ha_archive, ha_now, ha_cutoff,
                   ha_todo, ha_snapshot, ha_deleted, ha_removed, ha_caught,
                   ha_failure>>

HAFinishRun ==
    /\ ha_pc \in {"done", "failed"}
    /\ HAReset
    /\ UNCHANGED <<now, ticks, runs, destExists, files>>

-----------------------------------------------------------------------------
(* fix_permissions *)

\* Most descendants of root in the model.
MaxPaths == 3

\* Path 0 is root; paths 1..Len(kinds) are its descendants, in rglob order.
KindOf(path) == IF path = 0 THEN rootKind ELSE kinds[path]

RECURSIVE KindSeqs(_)
KindSeqs(n) ==
    IF n = 0 THEN {<<>>}
    ELSE LET shorter == KindSeqs(n - 1)
         IN  shorter \cup {Append(k, x) : k \in {t \in shorter : Len(t) = n - 1},
                                           x \in {"dir", "file"}}

PermInit ==
    /\ fp_pc = "start"
    /\ rootKind \in {"dir", "file", "missing"}
    /\ kinds \in KindSeqs(MaxPaths)
    /\ rootKind # "dir" => kinds = <<>>
    /\ owner = [p \in 0..Len(kinds) |-> "old"]
    /\ dry_run \in BOOLEAN
    /\ include_dirs \in BOOLEAN
    /\ targets = <<>>
    /\ visited = 0
    /\ scanned = 0
    /\ changed = 0
    /\ skipped = 0
    /\ errors = 0
    /\ fp_failure = ""

\* fix_permissions at rest (in the specifications of the other parts).
PermIdle ==
    /\ fp_pc = "off"
    /\ rootKind = "dir"
    /\ kinds = <<>>
    /\ owner = <<>>
    /\ dry_run = FALSE
    /\ include_dirs = FALSE
    /\ targets = <<>>
    /\ visited = 0
    /\ scanned = 0
    /\ changed = 0
    /\ skipped = 0
    /\ errors = 0
    /\ fp_failure = ""

\* Lines 32-42: the root check, the counters, the traversal list.
FpStart ==
    /\ fp_pc = "start"
    /\ IF rootKind = "missing"
       THEN /\ fp_pc' = "failed"
            /\ fp_failure' = "FileNotFoundError"
            /\ UNCHANGED <<targets, visited>>
       ELSE /\ targets' = (IF include_dirs THEN <<0>> ELSE <<>>)
                              \o [i \in 1..Len(kinds) |-> i]
            /\ visited' = Len(targets')
            /\ fp_pc' = "loop"
            /\ UNCHANGED fp_failure
    /\ UNCHANGED <<rootKind, kinds, owner, dry_run, include_dirs, scanned,
                   changed, skipped, errors>>

\* Faulty variant of ChownCounts: FileNotFoundError passed over without a
\* count.
ChownCountsDropMissing(outcome) ==
    CASE outcome = "ok" -> [changed |-> 1, skipped |-> 0, errors |-> 0]
      [] outcome = "FileNotFoundError" -> [changed |-> 0, skipped |-> 0, errors |-> 0]
      [] outcome = "PermissionError" -> [changed |-> 0, skipped |-> 0, errors |-> 1]
      [] outcome = "OSError" -> [changed |-> 0, skipped |-> 0, errors |-> 1]

\* Lines 52-67: what the try block and its except clauses add to the
\* counters for each outcome of os.chown.
ChownCounts(outcome) ==
    CASE outcome = "ok" -> [changed |-> 1, skipped |-> 0, errors |-> 0]
      [] outcome = "FileNotFoundError" -> [changed |-> 0, skipped |-> 1, errors |-> 0]
      [] outcome = "PermissionError" -> [changed |-> 0, skipped |-> 0, errors |-> 1]
      [] outcome = "OSError" -> [changed |-> 0, skipped |-> 0, errors |-> 1]

\* Path.is_dir(): the stat's answer; False when the path is gone (ENOENT and
\* the like are swallowed); any other OSError propagates.
IsDir(path, stat) ==
    CASE stat = "ok" -> IF KindOf(path) = "dir" THEN "True" ELSE "False"
      [] stat = "gone" -> "False"
      [] stat = "PermissionError" -> "PermissionError"
      [] stat = "OSError" -> "OSError"

\* One turn of the loop of lines 44-67.  path.is_dir() is called outside the
\* try block; os.chown inside it.
FpVisit ==
    /\ fp_pc = "loop"
    /\ targets # <<>>
    /\ scanned' = scanned + 1
    /\ LET path == Head(targets)
       IN  \E stat \in {"ok", "gone", "PermissionError", "OSError"},
              chown \in {"ok", "FileNotFoundError", "PermissionError", "OSError"} :
              LET isdir == IsDir(path, stat)
              IN  IF isdir \notin {"True", "False"}
                  THEN /\ fp_pc' = "failed"
                       /\ fp_failure' = isdir
                       /\ UNCHANGED <<targets, owner, changed, skipped, errors>>
                  ELSE IF isdir = "True" /\ ~include_dirs
                  THEN /\ skipped' = skipped + 1
                       /\ targets' = Tail(targets)
                       /\ UNCHANGED <<fp_pc, fp_failure, owner, changed, errors>>
                  ELSE IF dry_run
                  THEN /\ changed' = changed + 1
                       /\ targets' = Tail(targets)
                       /\ UNCHANGED <<fp_pc, fp_failure, owner, skipped, errors>>
                  ELSE LET add == ChownCounts(chown)
                       IN  /\ owner' = IF chown = "ok"
                                       THEN [owner EXCEPT ![path] = "new"]
                                       ELSE owner
                           /\ changed' = changed + add.changed
                           /\ skipped' = skipped + add.skipped
                           /\ errors' = errors + add.errors
                           /\ targets' = Tail(targets)
                           /\ UNCHANGED <<fp_pc, fp_failure>>
    /\ UNCHANGED <<rootKind, kinds, dry_run, include_dirs, visited>>

\* Lines 69-84: the loop is over, the summary is returned.
FpReturn ==
    /\ fp_pc = "loop"
    /\ targets = <<>>
    /\ fp_pc' = "done"
    /\ UNCHANGED <<rootKind, kinds, owner, dry_run, include_dirs, targets,
                   visited, scanned, changed, skipped, errors, fp_failure>>

-----------------------------------------------------------------------------
(* Specifications *)

\* Backup jobs of backup_generic_dir sharing one destination directory.
Init == EnvInit /\ RunInit /\ HAInit /\ SlugIdle /\ PermIdle

Next ==
    \/ (Tick /\ UNCHANGED <<runVars, haVars, slugVars, permVars>>)
    \/ (StartRun /\ UNCHANGED <<haVars, slugVars, permVars>>)
    \/ (ValidatePaths /\ UNCHANGED <<haVars, slugVars, permVars>>)
    \/ (CreateTar /\ UNCHANGED <<haVars, slugVars, permVars>>)
    \/ (PruneStart /\ UNCHANGED <<haVars, slugVars, permVars>>)
    \/ (PruneStat /\ UNCHANGED <<haVars, slugVars, permVars>>)
    \/ (PruneUnlink /\ UNCHANGED <<haVars, slugVars, permVars>>)
    \/ (ExternalDelete /\ UNCHANGED <<haVars, slugVars, permVars>>)
    \/ (FinishRun /\ UNCHANGED <<haVars, slugVars, permVars>>)

Spec == Init /\ [][Next]_vars

\* Runs of backup_homeassistant on its destination directory.
NextHA ==
    \/ (Tick /\ UNCHANGED <<runVars, haVars, slugVars, permVars>>)
    \/ (HAStartRun /\ UNCHANGED <<runVars, slugVars, permVars>>)
    \/ (EnsureDestDir /\ UNCHANGED <<runVars, slugVars, permVars>>)
    \/ (BackupHomeassistantConfig /\ UNCHANGED <<runVars, slugVars, permVars>>)
    \/ (HAPruneStart /\ UNCHANGED <<runVars, slugVars, permVars>>)
    \/ (HAPruneItem /\ UNCHANGED <<runVars, slugVars, permVars>>)
    \/ (HAPruneReturn /\ UNCHANGED <<runVars, slugVars, permVars>>)
    \/ (HAFinishRun /\ UNCHANGED <<runVars, slugVars, permVars>>)

SpecHA == Init /\ [][NextHA]_vars

\* _slugify on every string of the harness.
NextSlug ==
    \/ (SlugifyOnce /\ UNCHANGED <<envVars, runVars, haVars, permVars>>)
    \/ (SlugifyTwice /\ UNCHANGED <<envVars, runVars, haVars, permVars>>)

InitSlug == EnvInit /\ RunInit /\ HAInit /\ SlugInit /\ PermIdle

SpecSlug == InitSlug /\ [][NextSlug]_vars

\* One call of fix_permissions on every small tree and argument combination.
NextPerm ==
    \/ (FpStart /\ UNCHANGED <<envVars, runVars, haVars, slugVars>>)
    \/ (FpVisit /\ UNCHANGED <<envVars, runVars, haVars, slugVars>>)
    \/ (FpReturn /\ UNCHANGED <<envVars, runVars, haVars, slugVars>>)

InitPerm == EnvInit /\ RunInit /\ HAInit /\ SlugIdle /\ PermInit

SpecPerm == InitPerm /\ [][NextPerm]_vars

-----------------------------------------------------------------------------
(* Claims *)

StaticServer ==
    <<"s", "t", "a", "t", "i", "c", "_", "s", "e", "r", "v", "e", "r">>

DigitChars == {"0", "1", "2", "3", "4", "5", "6", "7", "8", "9"}

\* [a-z0-9._-], written out.
ClaimedSlugClass ==
    {"a", "b", "c", "d", "e", "f", "g", "h", "i", "j", "k", "l", "m", "n",
     "o", "p", "q", "r", "s", "t", "u", "v", "w", "x", "y", "z"}
        \cup DigitChars \cup {".", "_", "-"}

IsPrefix(s, t) == Len(s) <= Len(t) /\ SubSeq(t, 1, Len(s)) = s

\* The listed files that match "*-{slug}.tar" for the run's target.
MatchingAtListing ==
    {n \in DOMAIN snapshot : EndsWith(n, <<"-">> \o _slugify(target) \o DotTar)}

\* Those of them whose mtime is strictly before now - keep_days * 86400.
OldAtListing ==
    {n \in MatchingAtListing :
        snapshot[n].mtime < p_now - keep_days * SecondsPerDay}

\* C1: prune_old_archives removes only archives of its own logical source:
\* every file a run's prune has removed was created by a job whose target
\* base name has the same slug as the run's name hint.
C1_PruneRemovesOnlyOwnSlug ==
    \A r \in removed : _slugify(r.creator) = _slugify(target)

\* C2: archive names do not collide across jobs: an archive that create_tar
\* overwrites was created by a job with the same target directory name.
C2_NoCollisionAcrossJobs ==
    \A c \in clobbered : c = target

\* C3 (as stated): the archive of target "static_server" created on
\* 2024-03-05 is named 2024-03-05-static-server.tar.
C3_StaticServerHyphenated ==
    (/\ written
     /\ target = StaticServer
     /\ archive \in DOMAIN files
     /\ files[archive].mtime \div SecondsPerDay = 19787)
        => archive = <<"2", "0", "2", "4", "-", "0", "3", "-", "0", "5", "-",
                       "s", "t", "a", "t", "i", "c", "-",
                       "s", "e", "r", "v", "e", "r", ".", "t", "a", "r">>

\* C3 (amended): every archive name is YYYY-MM-DD, "-", a slug, ".tar"; the
\* archive of target "static_server" created on 2024-03-05 is named
\* 2024-03-05-static_server.tar ("_" is in the slug's character class).
C3_ArchiveNameComposition ==
    /\ (/\ written
        /\ target = StaticServer
        /\ archive \in DOMAIN files
        /\ files[archive].mtime \div SecondsPerDay = 19787)
           => archive = <<"2", "0", "2", "4", "-", "0", "3", "-", "0", "5", "-",
                          "s", "t", "a", "t", "i", "c", "_",
                          "s", "e", "r", "v", "e", "r", ".", "t", "a", "r">>
    /\ written =>
          /\ Len(archive) >= 16
          /\ \A i \in {1, 2, 3, 4, 6, 7, 9, 10} : archive[i] \in DigitChars
          /\ \A i \in {5, 8, 11} : archive[i] = "-"
          /\ SubSeq(archive, Len(archive) - 3, Len(archive)) = <<".", "t", "a", "r">>
          /\ \A i \in 12..(Len(archive) - 4) : archive[i] \in ClaimedSlugClass

\* C3 witness: create_tar has just written the archive of "static_server"
\* on 2024-03-05.
C3_StaticServerArchived ==
    /\ pc = "prune_old_archives"
    /\ written
    /\ target = StaticServer
    /\ archive \in DOMAIN files
    /\ files[archive].mtime \div SecondsPerDay = 19787

\* C4: once prune_old_archives has been called the run does not fail: no
\* per-file outcome of stat or unlink ends the run with an exception.
C4_PruneNeverFailsTheRun ==
    "prune_old_archives" \in Range(steps) => pc # "failed"

\* C5: when the run returns and no other process changed dest during the
\* prune: with keep_days < 1 nothing was listed or removed and the count is 0;
\* otherwise the files removed are exactly the listed files matching
\* "*-{slug}.tar" whose mtime is strictly before now - keep_days * 86400,
\* every other file is still there, and the count is the number removed.
\* Before the return, what has been removed is among those files.
C5_PruneRemovesExactlyTheOld ==
    /\ (pc = "done" /\ keep_days < 1) =>
          /\ ~listed
          /\ removed = {}
          /\ deleted = 0
          /\ DOMAIN files = DOMAIN startFiles \cup {archive}
    /\ (pc = "done" /\ keep_days >= 1 /\ ~concurrent) =>
          /\ {r.name : r \in removed} = OldAtListing
          /\ DOMAIN files = DOMAIN snapshot \ OldAtListing
          /\ deleted = Cardinality(removed)
    /\ (listed /\ ~concurrent) =>
          /\ {r.name : r \in removed} \subseteq OldAtListing
          /\ (DOMAIN snapshot \ OldAtListing) \subseteq DOMAIN files

\* C5 witness: a run returned, undisturbed, having removed an old archive
\* and kept a matching one whose mtime equals the cutoff.
C5_OldRemovedBoundaryKept ==
    /\ pc = "done"
    /\ ~concurrent
    /\ removed # {}
    /\ deleted = Cardinality(removed)
    /\ \E n \in MatchingAtListing \cap DOMAIN files :
          files[n].mtime = p_now - keep_days * SecondsPerDay

\* C6: at every loop boundary and at the return of fix_permissions,
\* scanned = changed + skipped + errors, and scanned counts the paths visited;
\* every completed turn of the loop adds one to scanned and one to exactly one
\* of changed, skipped, errors.
C6_CountersBalance ==
    /\ [](fp_pc \in {"loop", "done"} =>
             /\ scanned = changed + skipped + errors
             /\ scanned = visited - Len(targets))
    /\ [][(fp_pc = "loop" /\ fp_pc' = "loop") =>
             /\ scanned' = scanned + 1
             /\ \/ (changed' = changed + 1 /\ skipped' = skipped /\ errors' = errors)
                \/ (changed' = changed /\ skipped' = skipped + 1 /\ errors' = errors)
                \/ (changed' = changed /\ skipped' = skipped /\ errors' = errors + 1)]_vars

\* C6 witness: a completed real run in which paths were changed, skipped
\* and failed.
C6_AllCountersUsed ==
    /\ fp_pc = "done"
    /\ ~dry_run
    /\ changed > 0
    /\ skipped > 0
    /\ errors > 0

\* C7: fix_permissions fails only on the root-existence check: a call whose
\* root exists never ends with an exception, and returns scanned equal to the
\* number of paths in the traversal set.
C7_FailsOnlyOnRootCheck ==
    /\ fp_pc = "failed" => rootKind = "missing"
    /\ fp_pc = "done" => scanned = visited

\* C8: the tasks run in the order validate_paths, create_tar,
\* prune_old_archives; a missing or non-directory source leaves dest and its
\* files as they were; a failed validation writes and deletes no archive; a
\* non-zero tar exit means prune_old_archives is not called and no file that
\* was there is deleted; prune runs, and deletes, only after tar exited 0.
C8_FatalFailureStopsLaterSteps ==
    /\ IsPrefix(steps, <<"validate_paths", "create_tar", "prune_old_archives">>)
    /\ targetKind # "dir" /\ steps # <<>> =>
          /\ pc = "failed"
          /\ steps = <<"validate_paths">>
          /\ destExists = startDest
    /\ (pc = "failed" /\ steps = <<"validate_paths">>) =>
          /\ files = startFiles
          /\ archive = <<>>
          /\ removed = {}
    /\ failure = "CalledProcessError" =>
          /\ pc = "failed"
          /\ "prune_old_archives" \notin Range(steps)
          /\ removed = {}
          /\ DOMAIN startFiles \subseteq DOMAIN files
    /\ "prune_old_archives" \in Range(steps) => written
    /\ removed # {} => written

\* C8 witness: tar exited non-zero in a run whose prune would have had an
\* old archive of its own to delete.
C8_TarFailedWithOldArchive ==
    /\ pc = "failed"
    /\ failure = "CalledProcessError"
    /\ keep_days >= 1
    /\ \E n \in DOMAIN files :
          /\ EndsWith(n, <<"-">> \o _slugify(target) \o DotTar)
          /\ files[n].mtime < now - keep_days * SecondsPerDay

\* C9: when prune_old_backups returns, called with keep_days >= 1 and having
\* met no OS error, every file that matched "*-homeassistant.tar" with an
\* mtime older than keep_days days before the clock has been deleted, and the
\* count is the number deleted.
C9_HAPruneDeletesOld ==
    (ha_pc = "done" /\ ha_keep_days >= 1 /\ ha_caught.OSError = 0) =>
        /\ \A n \in DOMAIN ha_snapshot :
              (/\ EndsWith(n, <<"-">> \o Homeassistant \o DotTar)
               /\ ha_snapshot[n].mtime < ha_now - ha_keep_days * SecondsPerDay)
                  => n \notin DOMAIN files
        /\ ha_deleted = Cardinality(ha_removed)

\* C10: _slugify(s) is non-empty, holds only characters of [a-z0-9._-], and
\* _slugify(_slugify(s)) = _slugify(s).
C10_SlugifyWellFormedIdempotent ==
    /\ s_pc \in {"once", "twice"} =>
          /\ s_out # <<>>
          /\ \A i \in 1..Len(s_out) : s_out[i] \in ClaimedSlugClass
    /\ s_pc = "twice" => s_out2 = s_out

\* C10 witness: _slugify applied twice to a string it changes, with a "-"
\* left inside the slug.
C10_SlugifiedTwice ==
    /\ s_pc = "twice"
    /\ s_out # s_in
    /\ "-" \in Range(s_out)
    /\ s_out2 = s_out

====
